---- MODULE Spec2Model ----
(***************************************************************************)
(* A model of momentum_functions/loading.py: the .xy parser (load_xy with *)
(* its helper filter_meta_data) and the array reconstructor               *)
(* (load_to_xarray).  Text is modelled as text: a line is a TLA+ string   *)
(* and the Python string and regular-expression calls of the source are   *)
(* operators over strings.  A Python dict is a sequence of <<key, value>> *)
(* pairs in insertion order.                                              *)
(***************************************************************************)
EXTENDS Integers, Sequences, FiniteSets, TLC

VARIABLES
    pc,        \* position of the driver: which call comes next
    fshape,    \* the shape the file was written from (groups, trials, cycles, ...)
    file,      \* the lines of the .xy file handed to load_xy
    data,      \* the mapping load_xy returned (mutable: load_to_xarray aliases it)
    call,      \* arguments and outcome of the latest load_to_xarray call
    xr_scalar_dim,  \* whether the installed xarray accepts a 0-d coordinate named like a dimension
    malformed, \* the line written into the file that is no row of two numbers, and where
    fm_in,     \* filter_meta_data round trip: the key -> value pairs written out
    fm_lines,  \* filter_meta_data: its argument
    fm_out     \* filter_meta_data: its result

vars == <<pc, fshape, file, data, call, xr_scalar_dim, malformed, fm_in, fm_lines, fm_out>>

(***************************************************************************)
(* Python str helpers                                                      *)
(***************************************************************************)

\* the characters Python's \s and str.strip() treat as whitespace (those the model's text uses)
Whitespace == {" ", "\t"}

\* s[i-1] of Python (1-based here)
Char(s, i) == SubSeq(s, i, i)

IsWs(c) == c \in Whitespace

\* Python slice s[a:] with 0-based a >= 0, clamped like Python clamps it
SliceFrom(s, a) == IF a >= Len(s) THEN SubSeq(s, 1, 0) ELSE SubSeq(s, a + 1, Len(s))

\* Python slice s[a:b] with 0-based 0 <= a, 0 <= b, clamped
Slice(s, a, b) ==
    IF a >= b \/ a >= Len(s) THEN SubSeq(s, 1, 0)
    ELSE SubSeq(s, a + 1, IF b > Len(s) THEN Len(s) ELSE b)

\* `sub in s`
Contains(sub, s) ==
    \/ Len(sub) = 0
    \/ \E i \in 1..(Len(s) - Len(sub) + 1) : SubSeq(s, i, i + Len(sub) - 1) = sub

RECURSIVE LStrip(_)
LStrip(s) == IF Len(s) > 0 /\ IsWs(Char(s, 1)) THEN LStrip(Tail(s)) ELSE s

RECURSIVE RStrip(_)
RStrip(s) ==
    IF Len(s) > 0 /\ IsWs(Char(s, Len(s))) THEN RStrip(SubSeq(s, 1, Len(s) - 1)) ELSE s

\* str.strip()
Strip(s) == RStrip(LStrip(s))

\* re.fullmatch(r'\s*', s) is not None
IsBlank(s) == \A i \in 1..Len(s) : IsWs(Char(s, i))

\* re.sub(r'\s+', '', s)
RECURSIVE RemoveWs(_)
RemoveWs(s) ==
    IF Len(s) = 0 THEN s
    ELSE IF IsWs(Char(s, 1)) THEN RemoveWs(Tail(s))
    ELSE Char(s, 1) \o RemoveWs(Tail(s))

\* re.sub(one, '', s) for a one-character pattern `one`
RECURSIVE RemoveChar(_, _)
RemoveChar(one, s) ==
    IF Len(s) = 0 THEN s
    ELSE IF Char(s, 1) = one THEN RemoveChar(one, Tail(s))
    ELSE Char(s, 1) \o RemoveChar(one, Tail(s))

\* re.sub('^#', '', s)
StripHash(s) == IF Len(s) > 0 /\ Char(s, 1) = "#" THEN Tail(s) ELSE s

\* str.split(sep) for a non-empty separator: every non-overlapping occurrence,
\* left to right; i scans, start is where the pending piece begins (1-based)
RECURSIVE SplitFrom(_, _, _, _)
SplitFrom(s, sep, i, start) ==
    IF i + Len(sep) - 1 > Len(s) THEN <<SubSeq(s, start, Len(s))>>
    ELSE IF SubSeq(s, i, i + Len(sep) - 1) = sep
         THEN <<SubSeq(s, start, i - 1)>> \o SplitFrom(s, sep, i + Len(sep), i + Len(sep))
         ELSE SplitFrom(s, sep, i + 1, start)

Split(s, sep) == SplitFrom(s, sep, 1, 1)

\* length of the run of whitespace that starts at position i
RECURSIVE WsRun(_, _)
WsRun(s, i) == IF i <= Len(s) /\ IsWs(Char(s, i)) THEN 1 + WsRun(s, i + 1) ELSE 0

\* how many characters of the whitespace run at i the pattern (\s\s)+ takes
PairsEnd(s, i) == 2 * (WsRun(s, i) \div 2)

\* re.split(r'(\s\s)+', s): the leftmost match starts where two whitespace
\* characters first meet and takes as many pairs as the run holds; the
\* capturing group puts the last pair matched into the result
RECURSIVE ReSplitFrom(_, _, _)
ReSplitFrom(s, i, start) ==
    IF i > Len(s) THEN <<SubSeq(s, start, Len(s))>>
    ELSE IF WsRun(s, i) < 2 THEN ReSplitFrom(s, i + 1, start)
    ELSE <<SubSeq(s, start, i - 1), SubSeq(s, i + PairsEnd(s, i) - 2, i + PairsEnd(s, i) - 1)>>
         \o ReSplitFrom(s, i + PairsEnd(s, i), i + PairsEnd(s, i))

ReSplitPairs(s) == ReSplitFrom(s, 1, 1)

\* str.rfind(sub): the highest 0-based index where sub starts, or -1
Greatest(hits) == IF hits = {} THEN 0 ELSE CHOOSE i \in hits : \A j \in hits : j <= i

RFind(s, sub) ==
    Greatest({i \in 1..(Len(s) - Len(sub) + 1) : SubSeq(s, i, i + Len(sub) - 1) = sub}) - 1

(***************************************************************************)
(* Python dict helpers: a dict is a sequence of <<key, value>> pairs      *)
(***************************************************************************)

DictKeys(d) == [i \in 1..Len(d) |-> d[i][1]]

DictHas(d, k) == \E i \in 1..Len(d) : d[i][1] = k

\* d[k], for a key the dict holds
DictGet(d, k) == d[CHOOSE i \in 1..Len(d) : d[i][1] = k][2]

\* d[k] = v: an existing key keeps its place, a new key goes last
DictSet(d, k, v) ==
    IF DictHas(d, k)
    THEN [i \in 1..Len(d) |-> IF d[i][1] = k THEN <<k, v>> ELSE d[i]]
    ELSE Append(d, <<k, v>>)

\* d.update(e)
RECURSIVE DictUpdate(_, _)
DictUpdate(d, e) ==
    IF e = <<>> THEN d ELSE DictUpdate(DictSet(d, Head(e)[1], Head(e)[2]), Tail(e))

(***************************************************************************)
(* Let(e, F) is F(e): a value is named by passing it on, so that an       *)
(* expression the source evaluates once is evaluated once                  *)
(***************************************************************************)

Let(x, F(_)) == F(x)

(***************************************************************************)
(* filter_meta_data                                                        *)
(***************************************************************************)

NotBlank(s) == ~IsBlank(s)

\* lines 44-45 alone, the pop of lines 42-43 left out: C10 rests on the pop
Squeeze(tokens) == [i \in 1..Len(tokens) |-> RemoveWs(tokens[i])]

\* lines 42-45: the first of more than two tokens is dropped, then all
\* whitespace inside each token
PopAndSqueeze(tokens) ==
    Let(IF Len(tokens) > 2 THEN Tail(tokens) ELSE tokens,
        LAMBDA popped : [i \in 1..Len(popped) |-> RemoveWs(popped[i])])

\* lines 36-45, the tokens one line leaves: split, drop blank tokens, drop
\* a leading "#", drop the first of more than two, drop all whitespace
LineTokens(line) ==
    Let(SelectSeq(ReSplitPairs(line), NotBlank),
        LAMBDA parts : PopAndSqueeze([i \in 1..Len(parts) |-> StripHash(parts[i])]))

\* lines 47-50: ls_dict[tokens[0]] = tokens[1], an IndexError skips the line
PutTokens(acc, t) == IF Len(t) >= 2 THEN DictSet(acc, t[1], t[2]) ELSE acc

RECURSIVE FilterInto(_, _)
FilterInto(ls, acc) ==
    IF ls = <<>> THEN acc
    ELSE FilterInto(Tail(ls), PutTokens(acc, LineTokens(Head(ls))))

filter_meta_data(ls) == FilterInto(ls, <<>>)

(***************************************************************************)
(* Numbers: the samples of the model's files are unsigned decimal integers *)
(***************************************************************************)

DigitChars == "0123456789"

IsDigit(c) == \E d \in 1..10 : Char(DigitChars, d) = c

DigitVal(c) == (CHOOSE d \in 1..10 : Char(DigitChars, d) = c) - 1

RECURSIVE ParseNat(_)
ParseNat(s) ==
    IF Len(s) = 0 THEN 0
    ELSE 10 * ParseNat(SubSeq(s, 1, Len(s) - 1)) + DigitVal(Char(s, Len(s)))

AllDigits(u) == Len(u) > 0 /\ \A i \in 1..Len(u) : IsDigit(Char(u, i))

\* whether float(tok) (and int(tok)) returns: surrounding whitespace is
\* ignored, an empty or non-numeric token raises ValueError
IsNumber(tok) == AllDigits(Strip(tok))

\* float(tok) for a token it accepts
ToNumber(tok) == ParseNat(Strip(tok))

Last(seq) == seq[Len(seq)]

\* seq with x added unless it holds x already
AddOnce(seq, x) == IF \E i \in 1..Len(seq) : seq[i] = x THEN seq ELSE Append(seq, x)

\* list(OrderedDict.fromkeys(seq)): first occurrences, in order
RECURSIVE Dedup(_)
Dedup(seq) ==
    IF seq = <<>> THEN <<>>
    ELSE AddOnce(Dedup(SubSeq(seq, 1, Len(seq) - 1)), Last(seq))

\* new.join(pieces)
RECURSIVE Join(_, _)
Join(pieces, new) ==
    IF Len(pieces) = 1 THEN pieces[1]
    ELSE pieces[1] \o new \o Join(Tail(pieces), new)

\* re.sub(old, new, s) for a literal pattern
ReplaceAll(s, old, new) == Join(Split(s, old), new)

\* str.split(): the pieces between runs of whitespace, none empty
RECURSIVE WsSplitFrom(_, _, _)
WsSplitFrom(s, i, start) ==
    IF i > Len(s)
    THEN IF start <= Len(s) THEN <<SubSeq(s, start, Len(s))>> ELSE <<>>
    ELSE IF IsWs(Char(s, i))
         THEN (IF start < i THEN <<SubSeq(s, start, i - 1)>> ELSE <<>>)
              \o WsSplitFrom(s, i + 1, i + 1)
         ELSE WsSplitFrom(s, i + 1, start)

WsSplit(s) == WsSplitFrom(s, 1, 1)

(***************************************************************************)
(* load_xy                                                                 *)
(***************************************************************************)

\* the line that ends the global settings block (line 76)
SettingsSentinel == "#   Time Zone Format:         UTC"

\* the least member of a non-empty set of numbers
Least(hits) == CHOOSE i \in hits : \A j \in hits : i <= j

\* list.index(x): 0-based, or -1 where Python raises ValueError
IndexOf(ls, x) ==
    Let({i \in 1..Len(ls) : ls[i] = x},
        LAMBDA hits : IF hits = {} THEN -1 ELSE Least(hits) - 1)

\* [index for index, string in enumerate(ls) if word in string], 0-based, ascending
RECURSIVE IndexesFrom(_, _, _)
IndexesFrom(ls, word, i) ==
    IF i > Len(ls) THEN <<>>
    ELSE (IF Contains(word, ls[i]) THEN <<i - 1>> ELSE <<>>) \o IndexesFrom(ls, word, i + 1)

IndexesOf(ls, word) == IndexesFrom(ls, word, 1)

\* the tokens np.loadtxt reads from a line: what follows a "#" is a
\* comment, the rest is split on whitespace
LoadTxtRow(line) == WsSplit(Split(line, "#")[1])

NotEmpty(row) == row # <<>>

\* every row has as many columns as the first and holds numbers only
RowsAgree(rows) ==
    \A i \in 1..Len(rows) :
      /\ Len(rows[i]) = Len(rows[1])
      /\ \A j \in 1..Len(rows[i]) : IsNumber(rows[i][j])

\* np.loadtxt(file_path) of line 84 returns: a line with nothing but a
\* comment is skipped, any other must agree with the first, else ValueError
LoadTxtOk(lines) ==
    RowsAgree(SelectSeq([i \in 1..Len(lines) |-> LoadTxtRow(lines[i])], NotEmpty))

\* the record, a list [metadata dict, sample array], stored under a record key
Record(meta, rows) == [t |-> "list", meta |-> meta, rows |-> rows]

\* a setting of a trial: a string
Setting(v) == [t |-> "str", s |-> v]

\* cycle_names before the first line of a trial (lines 141-144)
InitialCycleNames(settings) ==
    IF Contains("yes", DictGet(settings, "SeparateChannelData:"))
    THEN <<"Cycle: 0, Curve: 0, Channel: 0">>
    ELSE <<"Cycle: 0, Curve: 0">>

\* the loop's variables before the first line of a trial (lines 133-144)
ScanStart(settings) ==
    [cycle_curve_dict   |-> <<>>,
     cycle_curve_data   |-> <<>>,
     cycle_curve_params |-> <<>>,
     parameter          |-> "",
     coordinates        |-> "",
     cycle_names        |-> InitialCycleNames(settings),
     exc                |-> "none"]

\* lines 148-149: a "Parameter:" line becomes the pending parameter
AfterParameter(st, line) ==
    IF Contains("Parameter:", line)
    THEN [st EXCEPT !.parameter = ReplaceAll(line, ": ", ":   ")]
    ELSE st

\* cycle_curve_params[-k].split('   ')[-1].strip()
LabelsOf(params, k) == Strip(Last(Split(params[Len(params) + 1 - k], "   ")))

\* lines 159-165: the column labels are read 3 or 2 entries from the end
CoordinatesAt(params, old) ==
    IF Len(params) > 4 THEN LabelsOf(params, 3)
    ELSE IF Len(params) > 3 THEN LabelsOf(params, 2)
    ELSE old

\* lines 151-168, the names and the metadata extended already: the record
\* that ends here is stored under the oldest pending name and the next one
\* starts
CloseRecord(st, names, params) ==
    [st EXCEPT
       !.cycle_curve_dict =
           DictSet(@, names[1], Record(filter_meta_data(params), st.cycle_curve_data)),
       !.coordinates = CoordinatesAt(params, @),
       !.cycle_names = Tail(names),
       !.cycle_curve_data = <<>>,
       !.cycle_curve_params = <<>>]

\* lines 150-168: what a "Curve:" line does
AfterCurve(st, line) ==
    IF Contains("Curve:", line)
    THEN CloseRecord(st, Append(st.cycle_names, SliceFrom(line, 2)),
                     Append(st.cycle_curve_params, st.parameter))
    ELSE st

\* line 173: the first two pieces of a line become one row.  float() of a
\* piece that is no number raises ValueError, which nothing catches;
\* numbers[1] of a one-piece line raises IndexError, which line 174 catches
AppendRow(st, numbers) ==
    IF ~IsNumber(numbers[1]) THEN [st EXCEPT !.exc = "ValueError"]
    ELSE IF Len(numbers) < 2 THEN st
    ELSE IF ~IsNumber(numbers[2]) THEN [st EXCEPT !.exc = "ValueError"]
    ELSE [st EXCEPT !.cycle_curve_data =
               Append(@, <<ToNumber(numbers[1]), ToNumber(numbers[2])>>)]

\* lines 169-175: a "#" line joins the metadata, any other line is split on
\* two spaces; line[0] of an empty line raises IndexError, which is caught
AfterContent(st, line) ==
    IF Len(line) = 0 THEN st
    ELSE IF Char(line, 1) = "#"
    THEN [st EXCEPT !.cycle_curve_params = Append(@, SliceFrom(line, 2))]
    ELSE AppendRow(st, Split(line, "  "))

\* one turn of the loop of lines 146-175
ScanLine(st, line) == AfterContent(AfterCurve(AfterParameter(st, line), line), line)

RECURSIVE ScanLines(_, _)
ScanLines(st, lines) ==
    IF lines = <<>> \/ st.exc # "none" THEN st
    ELSE ScanLines(ScanLine(st, Head(lines)), Tail(lines))

\* lines 181-182: every record of the trial gets the column labels
WithColumnLabels(d, coordinates) ==
    [i \in 1..Len(d) |->
       <<d[i][1], Record(DictSet(d[i][2].meta, "ColumnLabels:", coordinates),
                         d[i][2].rows)>>]

\* lines 177-182: the pending record is stored under the newest name
FinishTrial(st) ==
    WithColumnLabels(
        DictSet(st.cycle_curve_dict, Last(st.cycle_names),
                Record(filter_meta_data(IF st.parameter # ""
                                        THEN Append(st.cycle_curve_params, st.parameter)
                                        ELSE st.cycle_curve_params),
                       st.cycle_curve_data)),
        st.coordinates)

\* what the scan of a trial leaves: the exception, or the records
TrialOutcome(st) ==
    IF st.exc # "none" THEN [exc |-> st.exc, records |-> <<>>]
    ELSE [exc |-> "none", records |-> FinishTrial(st)]

\* lines 132-184 for one trial: [exc, records]
ParseTrial(settings, lines) == TrialOutcome(ScanLines(ScanStart(settings), lines))

TrialName(i) == "Trial " \o ToString(i)

\* lines 118-127: the lines of each trial's settings and of each trial,
\* from the indexes of line 111 (3 added already) and of line 112
SliceTrials(group, ors, rs) ==
    IF Len(ors) = 1
    THEN [exc |-> "none",
          metas |-> <<Slice(group, 0, ors[1])>>,
          trials |-> <<SliceFrom(group, ors[1])>>]
    ELSE IF Len(rs) < Len(ors)
    THEN [exc |-> "IndexError", metas |-> <<>>, trials |-> <<>>]
    ELSE [exc |-> "none",
          metas |-> [i \in 1..Len(ors) |-> Slice(group, rs[i], ors[i])],
          trials |-> [i \in 1..Len(ors) |->
                        IF i < Len(rs) THEN Slice(group, ors[i], rs[i + 1] - 1)
                        ELSE SliceFrom(group, ors[i])]]

\* line 111: three past every "OrdinateRange:" line
OrdinateRangeIndexes(group) ==
    Let(IndexesOf(group, "OrdinateRange:"),
        LAMBDA found : [i \in 1..Len(found) |-> found[i] + 3])

\* lines 111-127
GroupTrials(group) ==
    SliceTrials(group, OrdinateRangeIndexes(group), IndexesOf(group, "Region:"))

\* the trial's settings, each a string
Wrapped(local) == [j \in 1..Len(local) |-> <<local[j][1], Setting(local[j][2])>>]

\* lines 120/123 and 186-187: the settings of a trial, then its records
TrialDict(meta_lines, records) == DictUpdate(Wrapped(filter_meta_data(meta_lines)), records)

\* lines 132-187 for the trials of one group: [exc, run_settings].  Line 141
\* reads settings["SeparateChannelData:"] once per trial.
RECURSIVE ParseTrials(_, _, _, _)
ParseTrials(settings, gt, i, acc) ==
    IF i > Len(gt.trials) THEN [exc |-> "none", run_settings |-> acc]
    ELSE IF ~DictHas(settings, "SeparateChannelData:")
    THEN [exc |-> "KeyError", run_settings |-> <<>>]
    ELSE Let(ParseTrial(settings, gt.trials[i]),
             LAMBDA tr :
               IF tr.exc # "none" THEN [exc |-> tr.exc, run_settings |-> <<>>]
               ELSE ParseTrials(settings, gt, i + 1,
                                DictSet(acc, TrialName(i),
                                        TrialDict(gt.metas[i], tr.records))))

GroupOutcome(settings, gt) ==
    IF gt.exc # "none" THEN [exc |-> gt.exc, run_settings |-> <<>>]
    ELSE ParseTrials(settings, gt, 1, <<>>)

\* lines 107-189 for one group, which first loses its last line
ParseGroup(settings, lines) ==
    GroupOutcome(settings, GroupTrials(SubSeq(lines, 1, Len(lines) - 1)))

\* lines 89-91: the name of the group a "Group" line opens
GroupName(line) == Strip(SliceFrom(line, RFind(line, "    ") + 1))

\* lines 96-103: groups[name] = the lines from one "Group" line up to the next
RECURSIVE ZipGroups(_, _, _, _)
ZipGroups(meta_data, gi, i, acc) ==
    IF i > Len(gi) THEN acc
    ELSE ZipGroups(meta_data, gi, i + 1,
                   DictSet(acc, GroupName(meta_data[gi[i] + 1]),
                           IF i < Len(gi) THEN Slice(meta_data, gi[i], gi[i + 1])
                           ELSE SliceFrom(meta_data, gi[i])))

\* lines 86-103
GroupLines(meta_data) == ZipGroups(meta_data, IndexesOf(meta_data, "Group"), 1, <<>>)

\* lines 106-189
RECURSIVE ParseGroups(_, _, _, _)
ParseGroups(settings, groups, i, acc) ==
    IF i > Len(groups) THEN [exc |-> "none", groups |-> acc]
    ELSE Let(ParseGroup(settings, groups[i][2]),
             LAMBDA g :
               IF g.exc # "none" THEN [exc |-> g.exc, groups |-> <<>>]
               ELSE ParseGroups(settings, groups, i + 1,
                                Append(acc, <<groups[i][1], g.run_settings>>)))

Raised(exc) == [kind |-> "raised", exc |-> exc]

\* lines 191-194, or the exception the groups raised
Mapping(settings, g) ==
    IF g.exc # "none" THEN Raised(g.exc)
    ELSE [kind |-> "mapping", settings |-> settings, groups |-> g.groups]

\* lines 77-194
ParseFrom(raw, lines, settings_index) ==
    IF settings_index < 0 THEN Raised("ValueError")
    ELSE IF ~LoadTxtOk(raw) THEN Raised("ValueError")
    ELSE Let(filter_meta_data(Slice(lines, 0, settings_index + 1)),
             LAMBDA settings :
               Mapping(settings,
                       ParseGroups(settings,
                                   GroupLines(SliceFrom(lines, settings_index + 2)),
                                   1, <<>>)))

\* load_xy(file_path) with ONLY_SETTINGS and ONLY_GROUPNAMES left False, as
\* load_xy_data calls it: the mapping {settings, groups}, or the exception
load_xy(raw) ==
    Let([i \in 1..Len(raw) |-> Strip(raw[i])],
        LAMBDA lines : ParseFrom(raw, lines, IndexOf(lines, SettingsSentinel)))

(***************************************************************************)
(* load_to_xarray                                                          *)
(***************************************************************************)

\* Python's None, for an argument left out
None == "<None>"

RENAME_COORDS ==
    <<<<"X", "x">>, <<"Y", "y">>, <<"Z", "z">>,
      <<"k_x", "k">>, <<"k_y", "ky">>, <<"kx", "kx">>, <<"ky", "ky">>,
      <<"x", "x">>, <<"y", "y">>, <<"z", "z">>,
      <<"Kinetic Energy", "eV">>, <<"energy", "eV">>>>

\* a call that ended with an exception
Raise(exc) == [ret |-> "raised", exc |-> exc]

\* lines 204-227 with the handler of lines 207-213 left out, the KeyError of
\* line 206 reaching the caller: C6 rests on the handler
SelectTrial_NoHandler(d, group_name, trial_name) ==
    IF group_name # None
    THEN IF DictHas(d.groups, group_name) THEN [sel |-> "group_only"]
         ELSE [sel |-> "raise", exc |-> "KeyError"]
    ELSE IF trial_name # None THEN [sel |-> "raise", exc |-> "UnboundLocalError"]
    ELSE [sel |-> "trial", trial |-> DictGet(d.groups[1][2], "Trial 1")]

\* lines 204-227: the group and the trial the call works on.  A name that is
\* read before any branch assigned it raises UnboundLocalError, which the
\* "except KeyError" clauses do not catch.
\*   group_name given, a key:     group is assigned, trial is not
\*   group_name given, no key:    the names are printed, 1 is returned
\*   only trial_name given:       group[trial_name] reads group unassigned
\*   neither given:               the first group and its "Trial 1"
SelectTrial(d, group_name, trial_name) ==
    IF group_name # None
    THEN IF DictHas(d.groups, group_name)
         THEN [sel |-> "group_only"]
         ELSE [sel |-> "return", ret |-> "1", printed |-> DictKeys(d.groups)]
    ELSE IF trial_name # None
    THEN [sel |-> "raise", exc |-> "UnboundLocalError"]
    ELSE IF Len(d.groups) = 0 THEN [sel |-> "raise", exc |-> "IndexError"]
    ELSE IF ~DictHas(d.groups[1][2], "Trial 1") THEN [sel |-> "raise", exc |-> "KeyError"]
    ELSE [sel |-> "trial", trial |-> DictGet(d.groups[1][2], "Trial 1")]

\* lines 230-235: settings is data['settings'] itself, not a copy; every
\* entry of the trial that is no list is written into it
RECURSIVE MergeSettings(_, _)
MergeSettings(settings, trial) ==
    IF trial = <<>> THEN settings
    ELSE MergeSettings(IF Head(trial)[2].t = "list" THEN settings
                       ELSE DictSet(settings, Head(trial)[1], Head(trial)[2].s),
                       Tail(trial))

\* lines 244-251: one_cut and one_curve, the scan ending at the first key
\* that holds 'Cycle: 1'
RECURSIVE ScanKeys(_, _, _)
ScanKeys(keys, i, one_curve) ==
    IF i > Len(keys) THEN [one_cut |-> TRUE, one_curve |-> one_curve]
    ELSE IF Contains("Cycle: 1", keys[i]) THEN [one_cut |-> FALSE, one_curve |-> one_curve]
    ELSE ScanKeys(keys, i + 1, one_curve /\ ~Contains("Curve: 1, Channel: 0", keys[i]))

\* re.sub(',', '', key[a:b]): the text handed to int()
IndexText(key, a, b) == RemoveChar(",", Slice(key, a, b))

\* lines 262-267 and 273-278: a record whose index is the running one joins
\* the pending list, one whose index is the next closes the list and opens
\* a new one, any other record is left out
Place(st, rows, index, which) ==
    IF index = st[which] THEN [st EXCEPT !.array = Append(@, rows)]
    ELSE IF index = st[which] + 1
    THEN [st EXCEPT ![which] = @ + 1, !.cuts = Append(@, st.array), !.array = <<rows>>]
    ELSE st

\* int(text), which raises ValueError on text that is no number, then Place
PlaceAt(st, rows, text, which) ==
    IF ~IsNumber(text) THEN [st EXCEPT !.exc = "ValueError"]
    ELSE Place(st, rows, ToNumber(text), which)

\* one turn of the loop of lines 253-278
StackItem(st, key, value, flags) ==
    IF value.t # "list" THEN st
    ELSE IF Len(value.rows) = 0 THEN st
    ELSE IF flags.one_cut
    THEN IF flags.one_curve THEN [st EXCEPT !.array = Append(@, value.rows)]
         ELSE PlaceAt(st, value.rows, IndexText(key, 17, 20), "curve")
    ELSE PlaceAt(st, value.rows, IndexText(key, 7, 9), "cycle")

RECURSIVE StackItems(_, _, _)
StackItems(st, trial, flags) ==
    IF trial = <<>> \/ st.exc # "none" THEN st
    ELSE StackItems(StackItem(st, Head(trial)[1], Head(trial)[2], flags),
                    Tail(trial), flags)

\* line 280: the pending list closes the stack
CloseCuts(st) == [exc |-> st.exc, cuts |-> Append(st.cuts, st.array)]

\* lines 238-280: cuts, the list of lists of sample arrays
StackCuts(trial, flags) ==
    CloseCuts(StackItems([array |-> <<>>, cuts |-> <<>>, cycle |-> 0, curve |-> 0,
                          exc |-> "none"], trial, flags))

\* np.array(cuts) has four axes: every list holds as many arrays as the
\* first and every array as many rows as the first (a row holds two numbers)
FourAxes(cuts) ==
    /\ Len(cuts[1]) > 0
    /\ \A c \in 1..Len(cuts) :
         /\ Len(cuts[c]) = Len(cuts[1])
         /\ \A v \in 1..Len(cuts[c]) : Len(cuts[c][v]) = Len(cuts[1][1])

\* column j (0 or 1) of a sample array
Column(rows, j) == [n \in 1..Len(rows) |-> rows[n][j + 1]]

\* line 282: np.array(cuts)[:, :, :, 1]
IntensityStack(cuts) ==
    [c \in 1..Len(cuts) |-> [v \in 1..Len(cuts[c]) |-> Column(cuts[c][v], 1)]]

\* the shape of the stack of line 282
StackShape(cuts) == <<Len(cuts), Len(cuts[1]), Len(cuts[1][1])>>

\* lines 286-289: the name renamed where the table knows it
Renamed(name) == IF DictHas(RENAME_COORDS, name) THEN DictGet(RENAME_COORDS, name) ELSE name

\* line 285: the scan variable, the first word of the column labels
ScanVar(labels) == Renamed(Strip(Split(labels, " ")[1]))

\* lines 299-304: the name bound to real_non_energy_ordinate, "unbound"
\* when no branch assigns it
RealNonEnergyOrdinate(lens) ==
    IF Contains("MM_Momentum", lens) THEN "ky"
    ELSE IF Contains("MM_PEEM", lens) THEN "y"
    ELSE IF Contains("ARPES", lens) THEN "ky"
    ELSE "unbound"

\* lines 322-327: the name bound to real_channel
RealChannel(lens) ==
    IF Contains("MM_Momentum", lens) THEN "kx"
    ELSE IF Contains("MM_PEEM", lens) THEN "x"
    ELSE IF Contains("ARPES", lens) THEN "kx"
    ELSE "unbound"

\* a coordinate: a list of numbers, or the scalar 0
ListCoord(seq) == [k |-> "list", v |-> seq]

ScalarCoord == [k |-> "scalar", v |-> <<>>]

\* a list of values, or the exception that ended the loop collecting them
Failed(exc) == [exc |-> exc, v |-> <<>>]

\* lines 310-313: the NonEnergyOrdinate of every record, in order.  value[0]
\* of a setting is its first character (IndexError when it has none); a
\* record without the entry raises KeyError, a value that is no number
\* ValueError
RECURSIVE NeoValues(_, _)
NeoValues(trial, acc) ==
    IF trial = <<>> THEN [exc |-> "none", v |-> acc]
    ELSE IF Head(trial)[2].t = "str"
    THEN IF Len(Head(trial)[2].s) = 0 THEN Failed("IndexError")
         ELSE NeoValues(Tail(trial), acc)
    ELSE IF ~DictHas(Head(trial)[2].meta, "NonEnergyOrdinate:") THEN Failed("KeyError")
    ELSE IF ~IsNumber(DictGet(Head(trial)[2].meta, "NonEnergyOrdinate:"))
    THEN Failed("ValueError")
    ELSE NeoValues(Tail(trial),
                   Append(acc, ToNumber(DictGet(Head(trial)[2].meta, "NonEnergyOrdinate:"))))

\* an axis: [exc, name, coords]
NoAxis(exc) == [exc |-> exc, name |-> "", coords |-> ScalarCoord]

Axis(name, coords) == [exc |-> "none", name |-> name, coords |-> coords]

\* lines 314-318: KeyError is caught and gives the placeholder, the values
\* are kept once each
NeoAxis(name, got) ==
    IF got.exc = "KeyError" THEN Axis("No_NEO", ScalarCoord)
    ELSE IF got.exc # "none" THEN NoAxis(got.exc)
    ELSE Axis(name, ListCoord(Dedup(got.v)))

\* lines 306-318 with the placeholder also where no lens test bound the
\* name: C9 rests on line 307 raising there
NonEnergyOrdinate_Placeholder(lens, trial) ==
    IF RealNonEnergyOrdinate(lens) = "unbound" THEN Axis("No_NEO", ScalarCoord)
    ELSE NeoAxis(DictGet(RENAME_COORDS, RealNonEnergyOrdinate(lens)), NeoValues(trial, <<>>))

\* lines 306-318: the secondary ordinate
NonEnergyOrdinate(lens, trial) ==
    IF RealNonEnergyOrdinate(lens) = "unbound" THEN NoAxis("UnboundLocalError")
    ELSE NeoAxis(DictGet(RENAME_COORDS, RealNonEnergyOrdinate(lens)), NeoValues(trial, <<>>))

\* lines 342-343: float(...split('=')[1]) joins the list unless it is there
AddParameter(acc, parts) ==
    IF Len(parts) < 2 THEN Failed("IndexError")
    ELSE IF ~IsNumber(parts[2]) THEN Failed("ValueError")
    ELSE [exc |-> "none", v |-> AddOnce(acc, ToNumber(parts[2]))]

\* one turn of the loop of lines 341-343: only a record with more than two
\* metadata entries is read
ParameterOf(value, acc) ==
    IF value.t = "str"
    THEN IF Len(value.s) = 0 THEN Failed("IndexError") ELSE [exc |-> "none", v |-> acc]
    ELSE IF Len(value.meta) <= 2 THEN [exc |-> "none", v |-> acc]
    ELSE IF ~DictHas(value.meta, "Parameter:") THEN Failed("KeyError")
    ELSE AddParameter(acc, Split(DictGet(value.meta, "Parameter:"), "="))

\* lines 341-343
RECURSIVE ParValues(_, _)
ParValues(trial, got) ==
    IF trial = <<>> \/ got.exc # "none" THEN got
    ELSE ParValues(Tail(trial), ParameterOf(Head(trial)[2], got.v))

\* line 350: brackets of the name become "_"
RECURSIVE Unbracket(_)
Unbracket(s) ==
    IF Len(s) = 0 THEN s
    ELSE (IF Char(s, 1) \in {"[", "]"} THEN "_" ELSE Char(s, 1)) \o Unbracket(Tail(s))

\* line 349: the name stripped, its whitespace runs become "_"
Underscored(words) == IF words = <<>> THEN "" ELSE Join(words, "_")

\* lines 349-350
AxisName(raw) == Unbracket(Underscored(WsSplit(raw)))

\* lines 338-346: KeyError is caught and gives the placeholder
LogicalAxis(name, got) ==
    IF got.exc = "KeyError" THEN Axis(AxisName("No_LV"), ScalarCoord)
    ELSE IF got.exc # "none" THEN NoAxis(got.exc)
    ELSE Axis(AxisName(RemoveChar("\"", name)), ListCoord(got.v))

\* lines 337-350: the logical variable, named by the last record
LogicalVar(trial) ==
    IF ~DictHas(Last(trial)[2].meta, "Parameter:")
    THEN Axis(AxisName("No_LV"), ScalarCoord)
    ELSE LogicalAxis(Split(DictGet(Last(trial)[2].meta, "Parameter:"), "=")[1],
                     ParValues(trial, [exc |-> "none", v |-> <<>>]))

\* lines 321-333: the channel axis, its coordinates those of the secondary
\* ordinate; line 328 reads real_channel, bound by the same three tests
Channel(separate, lens, neo) ==
    IF ~separate THEN Axis("No_Channel", ScalarCoord)
    ELSE IF RealChannel(lens) = "unbound" THEN NoAxis("UnboundLocalError")
    ELSE Axis(DictGet(RENAME_COORDS, RealChannel(lens)), neo.coords)

\* lines 354-360 with the logical variable left out where the channels are
\* written apart: C8 rests on both names joining the list
ArrayDims_NoLogical(one_cut, separate, logical_var, channel, non_energy_ordinate, scan_var) ==
    (IF ~one_cut /\ ~separate THEN <<logical_var>> ELSE <<>>)
    \o (IF separate THEN <<channel>> ELSE <<>>)
    \o <<non_energy_ordinate, scan_var>>

\* lines 354-360
ArrayDims(one_cut, separate, logical_var, channel, non_energy_ordinate, scan_var) ==
    (IF ~one_cut THEN <<logical_var>> ELSE <<>>)
    \o (IF separate THEN <<channel>> ELSE <<>>)
    \o <<non_energy_ordinate, scan_var>>

\* lines 362-373: a dict display, a repeated key keeps its first place and
\* its last value
SpectrumCoords(scan_var, scan_coords, neo, channel, logical) ==
    DictUpdate(<<>>,
        <<<<scan_var, ListCoord(scan_coords)>>,
          <<neo.name, neo.coords>>,
          <<channel.name, channel.coords>>,
          <<logical.name, logical.coords>>,
          <<"chi", ScalarCoord>>, <<"theta", ScalarCoord>>,
          <<"psi", ScalarCoord>>, <<"alpha", ScalarCoord>>>>)

\* the length of the axis named dim: the first axis of that name
DimSize(dims, shape, dim) == shape[CHOOSE i \in 1..Len(dims) : dims[i] = dim]

InDims(dims, name) == \E i \in 1..Len(dims) : dims[i] = name

\* one coordinate of xr.DataArray: a list must be named like an axis and be
\* as long as it; a scalar named like an axis is refused by the xarray
\* releases that insist on a 1-d coordinate there and taken by the others
\* (scalar_dim)
CoordOk(shape, dims, name, c, scalar_dim) ==
    IF c.k = "list"
    THEN InDims(dims, name) /\ Len(c.v) = DimSize(dims, shape, name)
    ELSE InDims(dims, name) => scalar_dim

\* xr.DataArray(data, dims, coords) of lines 375-380 accepts its arguments:
\* as many names as the data has axes, and every coordinate fits
DataArrayOk(shape, dims, coords, scalar_dim) ==
    /\ Len(dims) = Len(shape)
    /\ \A i \in 1..Len(coords) : CoordOk(shape, dims, coords[i][1], coords[i][2], scalar_dim)

\* lines 375-384
Dataset(cuts, dims, coords, settings, scalar_dim) ==
    IF ~DataArrayOk(StackShape(cuts), dims, coords, scalar_dim) THEN Raise("ValueError")
    ELSE [ret    |-> "Dataset",
          dims   |-> dims,
          shape  |-> StackShape(cuts),
          values |-> IntensityStack(cuts),
          coords |-> coords,
          attrs  |-> settings]

\* lines 354-384, every axis known
Assemble(settings, cuts, one_cut, separate, scan_var, neo, channel, logical, scalar_dim) ==
    Dataset(cuts,
            ArrayDims(one_cut, separate, logical.name, channel.name, neo.name, scan_var),
            SpectrumCoords(scan_var, Column(cuts[1][1], 0), neo, channel, logical),
            settings, scalar_dim)

\* lines 336-384
WithLogical(settings, trial, cuts, one_cut, separate, neo, channel, logical, scalar_dim) ==
    IF channel.exc # "none" THEN Raise(channel.exc)
    ELSE IF logical.exc # "none" THEN Raise(logical.exc)
    ELSE Assemble(settings, cuts, one_cut, separate,
                  ScanVar(DictGet(Last(trial)[2].meta, "ColumnLabels:")),
                  neo, channel, logical, scalar_dim)

\* lines 320-384
WithChannel(settings, trial, cuts, one_cut, separate, lens, neo, scalar_dim) ==
    WithLogical(settings, trial, cuts, one_cut, separate, neo,
                Channel(separate, lens, neo), LogicalVar(trial), scalar_dim)

\* lines 306-384
WithNeo(settings, trial, cuts, one_cut, lens, neo, scalar_dim) ==
    IF neo.exc # "none" THEN Raise(neo.exc)
    ELSE IF ~DictHas(settings, "SeparateChannelData:") THEN Raise("KeyError")
    ELSE WithChannel(settings, trial, cuts, one_cut,
                     Contains("yes", DictGet(settings, "SeparateChannelData:")),
                     lens, neo, scalar_dim)

\* lines 299-384
WithLens(settings, trial, cuts, one_cut, lens, scalar_dim) ==
    WithNeo(settings, trial, cuts, one_cut, lens, NonEnergyOrdinate(lens, trial), scalar_dim)

\* lines 281-384: np.array(cuts)[0, 0, :, 0] needs four axes
WithCuts(settings, trial, one_cut, st, scalar_dim) ==
    IF st.exc # "none" THEN Raise(st.exc)
    ELSE IF ~FourAxes(st.cuts)
    THEN Raise(IF Len(st.cuts[1]) = 0 THEN "IndexError" ELSE "ValueError")
    ELSE IF Last(trial)[2].t # "list" THEN Raise("TypeError")
    ELSE IF ~DictHas(settings, "AnalyzerLens:") THEN Raise("KeyError")
    ELSE WithLens(settings, trial, st.cuts, one_cut,
                  DictGet(settings, "AnalyzerLens:"), scalar_dim)

\* lines 253-384
WithFlags(settings, trial, flags, scalar_dim) ==
    WithCuts(settings, trial, flags.one_cut, StackCuts(trial, flags), scalar_dim)

\* lines 238-384 on the selected trial, the settings merged already
Reconstruct(settings, trial, scalar_dim) ==
    WithFlags(settings, trial, ScanKeys(DictKeys(trial), 1, TRUE), scalar_dim)

\* lines 229-384: the outcome, and data['settings'] as the call leaves it
Merged(settings, trial, scalar_dim) ==
    [out |-> Reconstruct(settings, trial, scalar_dim), settings |-> settings]

\* lines 204-231: line 231 reads trial, which the branch of a given,
\* existing group_name never assigned
Selected(d, sel, scalar_dim) ==
    IF sel.sel = "return"
    THEN [out |-> [ret |-> sel.ret, printed |-> sel.printed], settings |-> d.settings]
    ELSE IF sel.sel = "raise" THEN [out |-> Raise(sel.exc), settings |-> d.settings]
    ELSE IF sel.sel = "group_only"
    THEN [out |-> Raise("UnboundLocalError"), settings |-> d.settings]
    ELSE Merged(MergeSettings(d.settings, sel.trial), sel.trial, scalar_dim)

\* load_to_xarray(data, group_name, trial_name): [out, settings], what the
\* call returns or raises and what it leaves in data['settings']
load_to_xarray(d, group_name, trial_name, scalar_dim) ==
    Selected(d, SelectTrial(d, group_name, trial_name), scalar_dim)

(***************************************************************************)
(* The files of the model: an exported .xy file written from its shape     *)
(***************************************************************************)

\* most groups of a file, trials of a group, cycles of a trial, curves of a
\* cycle, channels of a curve and numeric rows of a record
MaxGroups   == 2
MaxTrials   == 2
MaxCycles   == 2
MaxCurves   == 2
MaxChannels == 2
MaxRows     == 2

\* "# key:    value", the key padded as the export pads it
Padded(key, value) == "# " \o key \o "        " \o value

\* the intensity written in row n of a record: its digits name the group,
\* trial, cycle, curve, channel and row, so no two samples of a file agree
Intensity(g, t, c, v, h, n) ==
    ToString(g) \o ToString(t) \o ToString(c) \o ToString(v) \o ToString(h) \o ToString(n)

\* the scan coordinate written in row n
ScanValue(n) == ToString(10 + n)

\* NonEnergyOrdinate of curve v and Parameter of cycle c, by the file's mode
NeoValue(mode, v) == IF mode = "distinct" THEN ToString(5 + v) ELSE "5"

ParValue(mode, c) == IF mode = "distinct" THEN ToString(1 + c) ELSE "1"

CurveLine(sh, c, v, h) ==
    "# Cycle: " \o ToString(c) \o ", Curve: " \o ToString(v)
    \o (IF sh.sep = "yes" THEN ", Channel: " \o ToString(h) ELSE "")

\* the lines of one record after its "Curve:" line, a blank line last
RecordBody(sh, g, t, c, v, h) ==
    (IF sh.par # "absent"
     THEN <<"# Parameter: \"P\" = " \o ParValue(sh.par, c)>> ELSE <<>>)
    \o <<Padded("Acquisition Date:", "D")>>
    \o (IF sh.neo # "absent"
        THEN <<Padded("NonEnergyOrdinate:", NeoValue(sh.neo, v))>> ELSE <<>>)
    \o <<"#", Padded("ColumnLabels:", "energy counts/s"), "#">>
    \o [n \in 1..sh.rows |-> ScanValue(n) \o "  " \o Intensity(g, t, c, v, h, n)]
    \o <<"">>

\* the records of a trial in file order: cycle, then curve, then channel
RECURSIVE RecordLines(_, _, _, _, _, _)
RecordLines(sh, g, t, c, v, h) ==
    IF c >= sh.cycles THEN <<>>
    ELSE <<CurveLine(sh, c, v, h)>> \o RecordBody(sh, g, t, c, v, h)
         \o (IF h + 1 < sh.channels THEN RecordLines(sh, g, t, c, v, h + 1)
             ELSE IF v + 1 < sh.curves THEN RecordLines(sh, g, t, c, v + 1, 0)
             ELSE RecordLines(sh, g, t, c + 1, 0, 0))

TrialLines(sh, g, t) ==
    <<Padded("Region:", "R" \o ToString(t))>>
    \o (IF sh.lens # "absent" THEN <<Padded("Analyzer Lens:", sh.lens)>> ELSE <<>>)
    \o <<Padded("OrdinateRange:", "[11, 12]"), "#">>
    \o RecordLines(sh, g, t, 0, 0, 0)

RECURSIVE TrialsLines(_, _, _)
TrialsLines(sh, g, t) ==
    IF t > sh.trials THEN <<>> ELSE TrialLines(sh, g, t) \o TrialsLines(sh, g, t + 1)

\* a group: its "Group" line, its trials and the line that ends it
GroupBlock(sh, g) ==
    <<Padded("Group:", "G" \o ToString(g)), "#">> \o TrialsLines(sh, g, 1) \o <<"">>

RECURSIVE GroupsLines(_, _)
GroupsLines(sh, g) ==
    IF g > sh.groups THEN <<>> ELSE GroupBlock(sh, g) \o GroupsLines(sh, g + 1)

HeaderLines(sh) ==
    <<"#   Separate Channel Data:    " \o sh.sep, SettingsSentinel, "#">>

FileOf(sh) == HeaderLines(sh) \o GroupsLines(sh, 1)

(***************************************************************************)
(* Values that stand for "nothing yet"                                     *)
(***************************************************************************)

NoData == [kind |-> "none"]

NoCall == [made |-> FALSE]

NoShape == [groups |-> 0]

NoLine == [made |-> FALSE]

(***************************************************************************)
(* Spec: a file is loaded by load_xy and load_to_xarray is called on the   *)
(* mapping, any number of times, with any names                            *)
(***************************************************************************)

\* most records of a file
MaxRecords == 4

Lenses == {"MM_Momentum", "MM_PEEM", "ARPES", "Other"}

NeoModes == {"distinct", "same", "absent"}

ParModes == {"distinct", "absent"}

\* the export as the instrument writes it by default: a momentum-mode lens,
\* a NonEnergyOrdinate of its own for every curve and a Parameter of its own
\* for every cycle
Nominal(sh) == sh.lens = "MM_Momentum" /\ sh.neo = "distinct" /\ sh.par = "distinct"

\* the files of Spec: at most MaxRecords records; channels only where they
\* are written apart; the files of several groups or trials are nominal
Shapes ==
    {sh \in [sep : {"no", "yes"}, lens : Lenses,
             groups : 1..MaxGroups, trials : 1..MaxTrials, cycles : 1..MaxCycles,
             curves : 1..MaxCurves, channels : 1..MaxChannels, rows : 1..MaxRows,
             neo : NeoModes, par : ParModes] :
        /\ sh.sep = "no" => sh.channels = 1
        /\ sh.groups * sh.trials * sh.cycles * sh.curves * sh.channels <= MaxRecords
        /\ sh.groups * sh.trials > 1 => Nominal(sh)}

\* the names a caller may pass: left out, the first group (trial) of every
\* file, or the second, which the files of one group (trial) do not hold
GroupArgs == {None, "G1", "G2"}

TrialArgs == {None, TrialName(1), TrialName(2)}

Init ==
    /\ pc = "start"
    /\ fshape \in Shapes
    /\ file = FileOf(fshape)
    /\ data = NoData
    /\ call = NoCall
    /\ xr_scalar_dim \in BOOLEAN
    /\ malformed = NoLine
    /\ fm_in = <<>>
    /\ fm_lines = <<>>
    /\ fm_out = <<>>

\* data = load_xy(file_name), line 390
LoadXY ==
    /\ pc = "start"
    /\ data' = load_xy(file)
    /\ pc' = IF data'.kind = "mapping" THEN "loaded" ELSE "raised"
    /\ UNCHANGED <<fshape, file, call, xr_scalar_dim, malformed, fm_in, fm_lines, fm_out>>

\* load_to_xarray(data, group_name, trial_name), line 392 or a caller's own
LoadToXarray ==
    /\ pc = "loaded"
    /\ \E g \in GroupArgs, t \in TrialArgs :
         LET r == load_to_xarray(data, g, t, xr_scalar_dim)
         IN  /\ data' = [data EXCEPT !.settings = r.settings]
             /\ call' = [made |-> TRUE, group_name |-> g, trial_name |-> t, out |-> r.out]
    /\ UNCHANGED <<pc, fshape, file, xr_scalar_dim, malformed, fm_in, fm_lines, fm_out>>

Next == LoadXY \/ LoadToXarray

Spec == Init /\ [][Next]_vars

(***************************************************************************)
(* load_to_xarray under Spec                                               *)
(***************************************************************************)

\* a call of load_to_xarray has ended
Called == pc = "loaded" /\ call.made

\* the call left out both names
DefaultCall == call.group_name = None /\ call.trial_name = None

\* the call returned the Dataset
Returned == call.out.ret = "Dataset"

\* the file holds one record: one group, one trial, one cycle, one curve
SingleRecord ==
    /\ fshape.groups = 1 /\ fshape.trials = 1
    /\ fshape.cycles = 1 /\ fshape.curves = 1 /\ fshape.channels = 1

\* the lens names one of the three modes
Recognized(lens) ==
    Contains("MM_Momentum", lens) \/ Contains("MM_PEEM", lens) \/ Contains("ARPES", lens)

\* the group and the trial two names stand for: the first group and
\* "Trial 1" for a name left out
NamedGroup(g) == IF g = None THEN data.groups[1][2] ELSE DictGet(data.groups, g)

TrialKey(t) == IF t = None THEN "Trial 1" ELSE t

GroupExists(g) == g = None \/ DictHas(data.groups, g)

NamesExist(g, t) == GroupExists(g) /\ DictHas(NamedGroup(g), TrialKey(t))

NamedTrial(g, t) == DictGet(NamedGroup(g), TrialKey(t))

\* the settings of the file with those of the trial written over them
NamedSettings(g, t) == MergeSettings(data.settings, NamedTrial(g, t))

\* C1 as stated: for a file of one group, one trial, one cycle and one curve
\* (a single record of N rows) under a lens of the three modes,
\* load_to_xarray(load_xy(file)) returns an array of exactly two axes, the
\* secondary ordinate (or "No_NEO") and the scan variable in that order, and
\* the scan coordinate has N entries
C1_SingleRecordTwoAxes ==
    (Called /\ DefaultCall /\ SingleRecord /\ Recognized(fshape.lens))
    => /\ Returned
       /\ Len(call.out.dims) = 2
       /\ call.out.dims[1] \in {"ky", "y", "No_NEO"}
       /\ call.out.dims[2] = "eV"
       /\ Len(DictGet(call.out.coords, "eV").v) = fshape.rows

\* lines 229-384 on the trial two names stand for
Reconstructed(g, t) == Reconstruct(NamedSettings(g, t), NamedTrial(g, t), xr_scalar_dim)

\* C2 as stated: with names that exist, each of the four ways of giving or
\* leaving out group_name and trial_name reconstructs the trial the names
\* stand for: where that trial reconstructs to an array, the call returns it
C2_ExistingNamesReconstruct ==
    (/\ Called
     /\ NamesExist(call.group_name, call.trial_name)
     /\ Reconstructed(call.group_name, call.trial_name).ret = "Dataset")
    => call.out = Reconstructed(call.group_name, call.trial_name)

\* C3 as stated: for a trial whose channels are not written apart, of cycles
\* 0..C-1 (C >= 2), V curves a cycle and N rows a record, under a lens of
\* the three modes, the array returned has shape (C, V, N), entry [c][v] is
\* column 1 of the record of cycle c and curve v, and the axes are the
\* logical variable, the secondary ordinate and the scan variable
C3_CyclesStacked ==
    (Called /\ DefaultCall /\ fshape.sep = "no" /\ fshape.cycles >= 2
       /\ Recognized(fshape.lens))
    => /\ Returned
       /\ call.out.shape = <<fshape.cycles, fshape.curves, fshape.rows>>
       /\ \A c \in 1..fshape.cycles, v \in 1..fshape.curves, n \in 1..fshape.rows :
            call.out.values[c][v][n] = ToNumber(Intensity(1, 1, c - 1, v - 1, 0, n))
       /\ Len(call.out.dims) = 3
       /\ call.out.dims[3] = "eV"

\* C4 as stated: a call of load_to_xarray leaves data['settings'] as it
\* found it, no key of the trial added or written over
C4_SettingsUnchanged == [][pc = "loaded" => data'.settings = data.settings]_vars

\* C6: a call with a group_name that is no key of data['groups'] ends with
\* the report of the group names the mapping holds (the code prints them and
\* returns 1) and returns no array
C6_MissingGroupReported ==
    (Called /\ call.group_name # None /\ ~DictHas(data.groups, call.group_name))
    => /\ call.out.ret = "1"
       /\ call.out.printed = DictKeys(data.groups)

\* "G2" was asked of a file whose one group is "G1"
C6_Witness ==
    /\ Called
    /\ call.group_name = "G2"
    /\ fshape.groups = 1
    /\ call.out = [ret |-> "1", printed |-> <<"G1">>]

\* C7 as stated: a call with a trial_name that is no trial of the group the
\* call works on ends with the report of the trial names of that group and
\* returns no array
C7_MissingTrialReported ==
    (Called /\ call.trial_name # None /\ GroupExists(call.group_name)
       /\ ~DictHas(NamedGroup(call.group_name), call.trial_name))
    => /\ call.out.ret = "2"
       /\ call.out.printed = DictKeys(NamedGroup(call.group_name))

\* a key of the trial holds cycle index 1
HasCycleOne(trial) == \E i \in 1..Len(trial) : Contains("Cycle: 1", trial[i][1])

\* C8: when the settings ask for the channels apart (SeparateChannelData
\* holds "yes") and the trial the call works on has a record of cycle 1, the
\* call ends with an exception and returns no array, whatever the curves and
\* channels of a cycle
C8_CyclesWithChannelsRaise ==
    (/\ Called
     /\ NamesExist(call.group_name, call.trial_name)
     /\ Contains("yes", DictGet(data.settings, "SeparateChannelData:"))
     /\ HasCycleOne(NamedTrial(call.group_name, call.trial_name)))
    => call.out.ret = "raised"

\* two cycles of two curves with the channels apart reached xr.DataArray,
\* which refused four names for three axes
C8_Witness ==
    /\ Called /\ DefaultCall
    /\ fshape.sep = "yes" /\ fshape.cycles = 2 /\ fshape.curves = 2
    /\ Recognized(fshape.lens)
    /\ call.out = Raise("ValueError")

\* C9: when the settings of the file and the trial hold an AnalyzerLens of
\* none of the three modes, the call ends with an exception and returns no
\* array, so no axis of a default or placeholder name
C9_UnknownLensRaises ==
    (/\ Called
     /\ NamesExist(call.group_name, call.trial_name)
     /\ DictHas(NamedSettings(call.group_name, call.trial_name), "AnalyzerLens:")
     /\ ~Recognized(DictGet(NamedSettings(call.group_name, call.trial_name),
                            "AnalyzerLens:")))
    => call.out.ret = "raised"

\* the default call on a file of lens "Other" raised at line 307
C9_Witness ==
    /\ Called /\ DefaultCall
    /\ DictGet(data.settings, "AnalyzerLens:") = "Other"
    /\ call.out = Raise("UnboundLocalError")

(***************************************************************************)
(* SpecParse: load_xy on a file with one line of a trial that is no row of *)
(* two numbers                                                             *)
(***************************************************************************)

\* the lines written into a trial: an empty line, a line of one number, a
\* line whose second or first piece is no number, and two numbers a single
\* space apart, which line.split('  ') leaves in one piece
MalformedLines == {"", "11", "11  x", "x  12", "11 12"}

\* the files of SpecParse
ParseShapes == {sh \in Shapes : Nominal(sh)}

\* a row of a record: the lines of a written file that are neither empty
\* nor metadata
IsRow(line) == Len(line) > 0 /\ Char(line, 1) # "#"

\* ls with line put after its i-th entry
InsertAfter(ls, i, line) == SubSeq(ls, 1, i) \o <<line>> \o SubSeq(ls, i + 1, Len(ls))

ParseInit ==
    /\ pc = "parse_start"
    /\ fshape \in ParseShapes
    /\ file = FileOf(fshape)
    /\ data = NoData
    /\ call = NoCall
    /\ xr_scalar_dim = FALSE
    /\ malformed = NoLine
    /\ fm_in = <<>>
    /\ fm_lines = <<>>
    /\ fm_out = <<>>

\* one malformed line is written after a row of some record
InsertLine ==
    /\ pc = "parse_start"
    /\ \E i \in 1..Len(file), line \in MalformedLines :
         /\ IsRow(file[i])
         /\ file' = InsertAfter(file, i, line)
         /\ malformed' = [made |-> TRUE, line |-> line, after |-> i]
    /\ pc' = "parse_ready"
    /\ UNCHANGED <<fshape, data, call, xr_scalar_dim, fm_in, fm_lines, fm_out>>

\* most blank lines taken out of one file
MaxTrims == 2

\* ls without its i-th entry
RemoveAt(ls, i) == SubSeq(ls, 1, i - 1) \o SubSeq(ls, i + 1, Len(ls))

\* one blank line is taken out of the file, so that a row may be the last
\* line of a trial, of a group or of the file
TrimBlank ==
    /\ pc \in {"parse_start", "parse_trimmed"}
    /\ Len(FileOf(fshape)) - Len(file) < MaxTrims
    /\ \E i \in 1..Len(file) :
         /\ file[i] = ""
         /\ file' = RemoveAt(file, i)
    /\ pc' = "parse_trimmed"
    /\ UNCHANGED <<fshape, data, call, xr_scalar_dim, malformed, fm_in, fm_lines, fm_out>>

\* load_xy(file_path) on the file as written, with a malformed line in it
\* or with blank lines taken out
ParseXY ==
    /\ pc \in {"parse_start", "parse_ready", "parse_trimmed"}
    /\ data' = load_xy(file)
    /\ pc' = "parsed"
    /\ UNCHANGED <<fshape, file, call, xr_scalar_dim, malformed, fm_in, fm_lines, fm_out>>

ParseNext == InsertLine \/ TrimBlank \/ ParseXY

SpecParse == ParseInit /\ [][ParseNext]_vars

\* C5 as stated: whatever malformed line a trial holds, load_xy returns the
\* mapping it returns for the file without the line
C5_MalformedLineSkipped ==
    (pc = "parsed" /\ malformed.made) => data = load_xy(FileOf(fshape))

\* the rows the file holds for the record of group g, trial t, cycle c,
\* curve v and channel h
WrittenRows(g, t, c, v, h) ==
    [n \in 1..fshape.rows |->
       <<ToNumber(ScanValue(n)), ToNumber(Intensity(g, t, c, v, h, n))>>]

\* the key of that record: its "Curve:" line without the "# "
RecordKey(c, v, h) == SliceFrom(CurveLine(fshape, c, v, h), 2)

\* the mapping holds the record of group g and trial t under key, with rows
HoldsRows(g, t, key, rows) ==
    /\ DictHas(data.groups, "G" \o ToString(g))
    /\ DictHas(DictGet(data.groups, "G" \o ToString(g)), TrialName(t))
    /\ DictHas(DictGet(DictGet(data.groups, "G" \o ToString(g)), TrialName(t)), key)
    /\ DictGet(DictGet(DictGet(data.groups, "G" \o ToString(g)), TrialName(t)), key).rows
         = rows

\* C11 as stated: of a file whose lines are all well formed, load_xy returns
\* the mapping in which every record holds, in file order, every row written
\* between its "Curve:" line and the next, the rows that are the last line
\* of a trial, of a group or of the file among them
C11_NoRowLost ==
    (pc = "parsed" /\ ~malformed.made)
    => /\ data.kind = "mapping"
       /\ \A g \in 1..fshape.groups, t \in 1..fshape.trials :
            \A c \in 0..(fshape.cycles - 1), v \in 0..(fshape.curves - 1),
               h \in 0..(fshape.channels - 1) :
              HoldsRows(g, t, RecordKey(c, v, h), WrittenRows(g, t, c, v, h))

\* C11 on the files as the export writes them, a blank line after every
\* record and one more after every group: no row is lost
C11_NoRowLostAsWritten ==
    (pc = "parsed" /\ file = FileOf(fshape))
    => /\ data.kind = "mapping"
       /\ \A g \in 1..fshape.groups, t \in 1..fshape.trials :
            \A c \in 0..(fshape.cycles - 1), v \in 0..(fshape.curves - 1),
               h \in 0..(fshape.channels - 1) :
              HoldsRows(g, t, RecordKey(c, v, h), WrittenRows(g, t, c, v, h))

(***************************************************************************)
(* SpecMeta: filter_meta_data on lines written from a key -> value mapping *)
(***************************************************************************)

\* most characters the keys and values of one mapping hold together
MaxChars == 5

\* most pairs of one mapping
MaxPairs == 2

MetaAlphabet == {"a", " ", "#"}

RECURSIVE StrsOfLen(_)
StrsOfLen(n) ==
    IF n = 0 THEN {""} ELSE {s \o c : s \in StrsOfLen(n - 1), c \in MetaAlphabet}

RECURSIVE SumLen(_)
SumLen(pairs) ==
    IF pairs = <<>> THEN 0
    ELSE Len(Head(pairs)[1]) + Len(Head(pairs)[2]) + SumLen(Tail(pairs))

\* the line written for one pair: "#  key    value"
MetaLine(k, v) == "#  " \o k \o "    " \o v

MetaInit ==
    /\ pc = "meta_start"
    /\ fshape = NoShape
    /\ file = <<>>
    /\ data = NoData
    /\ call = NoCall
    /\ xr_scalar_dim = FALSE
    /\ malformed = NoLine
    /\ fm_in = <<>>
    /\ fm_lines = <<>>
    /\ fm_out = <<>>

\* one more pair of the mapping, under a key it does not hold yet
AddPair ==
    /\ pc = "meta_start"
    /\ Len(fm_in) < MaxPairs
    /\ \E lk \in 0..(MaxChars - SumLen(fm_in)) :
         \E k \in StrsOfLen(lk) :
           \E lv \in 0..(MaxChars - SumLen(fm_in) - lk) :
             \E v \in StrsOfLen(lv) :
               /\ ~DictHas(fm_in, k)
               /\ fm_in' = Append(fm_in, <<k, v>>)
    /\ UNCHANGED <<pc, fshape, file, data, call, xr_scalar_dim, malformed, fm_lines, fm_out>>

\* the mapping written out, one line per pair
WriteLines ==
    /\ pc = "meta_start"
    /\ fm_lines' = [i \in 1..Len(fm_in) |-> MetaLine(fm_in[i][1], fm_in[i][2])]
    /\ pc' = "meta_written"
    /\ UNCHANGED <<fshape, file, data, call, xr_scalar_dim, malformed, fm_in, fm_out>>

FilterMetaData ==
    /\ pc = "meta_written"
    /\ fm_out' = filter_meta_data(fm_lines)
    /\ pc' = "meta_done"
    /\ UNCHANGED <<fshape, file, data, call, xr_scalar_dim, malformed, fm_in, fm_lines>>

MetaNext == AddPair \/ WriteLines \/ FilterMetaData

SpecMeta == MetaInit /\ [][MetaNext]_vars

\* two dicts are equal when they hold the same pairs, whatever the order
DictEq(d, e) == {d[i] : i \in 1..Len(d)} = {e[i] : i \in 1..Len(e)}

HasWs(s) == \E i \in 1..Len(s) : IsWs(Char(s, i))

StartsWithHash(s) == Len(s) > 0 /\ Char(s, 1) = "#"

\* a string filter_meta_data returns as written: no whitespace in it, no "#" in front
PlainToken(s) == ~HasWs(s) /\ ~StartsWithHash(s)

\* C10 as stated: for every mapping from string keys to string values the
\* lines "#  key    value" are read back as the mapping itself
C10_RoundTripAnyStrings == pc = "meta_done" => DictEq(fm_out, fm_in)

\* C10, amended: the mapping is read back unchanged when no key and no value
\* holds whitespace or starts with "#" and no value is empty
C10_RoundTripPlainTokens ==
    (/\ pc = "meta_done"
     /\ \A i \in 1..Len(fm_in) :
          /\ PlainToken(fm_in[i][1])
          /\ PlainToken(fm_in[i][2])
          /\ Len(fm_in[i][2]) > 0)
    => DictEq(fm_out, fm_in)

\* a two-pair mapping of plain tokens has been written and read back
C10_Witness ==
    /\ pc = "meta_done"
    /\ Len(fm_in) = 2
    /\ \A i \in 1..2 : PlainToken(fm_in[i][1]) /\ PlainToken(fm_in[i][2])
                       /\ Len(fm_in[i][1]) > 0 /\ Len(fm_in[i][2]) > 0
    /\ fm_out = fm_in

====
